---- MODULE Spec2Model ----
(***************************************************************************)
(* Model of the cryptocurrency-advanced database schema (schema.rs):       *)
(* the wallet map, the per-wallet history lists, the map of send-approve   *)
(* transactions, and the six mutating methods of SchemaImpl.               *)
(***************************************************************************)
EXTENDS Integers, Sequences, FiniteSets, TLC

(* ------------------------------ bounds --------------------------------- *)

\* Width of the machine words of the model: u64 and i64 are modelled as
\* WordBits-bit integers, with the same wrapping and the same casts.
WordBits == 8
\* Number of history entries, over all wallets, that the model explores:
\* every method call pushes one.
MaxHistory == 3
\* An ordinary amount, smaller than INITIAL_BALANCE.
SmallAmount == 30

(* ----------------------------- constants ------------------------------- *)

\* crate::INITIAL_BALANCE, imported by schema.rs.
INITIAL_BALANCE == 100

RECURSIVE Pow2(_)
Pow2(n) == IF n = 0 THEN 1 ELSE 2 * Pow2(n - 1)

U64_MOD == Pow2(WordBits)
U64_MAX == U64_MOD - 1
I64_MAX == Pow2(WordBits - 1) - 1
I64_MIN == 0 - Pow2(WordBits - 1)

Address == {"A", "B"}
Name == {"alice", "bob"}
Hash == {1, 2}

\* The u64 amounts the callers pass: an ordinary one, the smallest one whose
\* `as i64` cast is negative, and the largest one.
Amounts == {SmallAmount, I64_MAX + 1, U64_MAX}
\* The i64 changes passed to increase_frozen_balance.
Changes == {SmallAmount, -1, I64_MAX}

(* --------------------------- integer semantics ------------------------- *)

\* `x as i64` of a u64.
AsI64(x) == IF x > I64_MAX THEN x - U64_MOD ELSE x
\* `x as u64` of an i64 (also the wrap of an unsigned result).
AsU64(x) == x % U64_MOD
\* Wrapped i64 result of a signed operation whose exact result is x.
WrapI64(x) == AsI64(x % U64_MOD)
\* The exact result does not fit the type: a panic when the build has
\* overflow checks, a wrap otherwise.
OverflowsU64(x) == x < 0 \/ x > U64_MAX
OverflowsI64(x) == x < I64_MIN \/ x > I64_MAX

(* ------------------- merkledb and Wallet (outside schema.rs) ----------- *)

\* ProofListIndex::object_hash: a digest of the ordered list of hashes,
\* different for different lists.
RECURSIVE object_hash(_)
object_hash(history) ==
    IF history = <<>> THEN 0
    ELSE object_hash(SubSeq(history, 1, Len(history) - 1)) * (Cardinality(Hash) + 1)
             + history[Len(history)]

\* Wallet::new
Wallet_new(owner, name, balance, frozen_balance, history_len, history_hash) ==
    [owner |-> owner, name |-> name, balance |-> balance,
     frozen_balance |-> frozen_balance, history_len |-> history_len,
     history_hash |-> history_hash]

\* Wallet::set_balance: a wallet with the new balance, the next history
\* length and the given history hash.
set_balance(wallet, balance, history_hash) ==
    Wallet_new(wallet.owner, wallet.name, balance, wallet.frozen_balance,
               wallet.history_len + 1, history_hash)

\* Wallet::set_frozen_balance: likewise for the frozen balance.
set_frozen_balance(wallet, frozen_balance, history_hash) ==
    Wallet_new(wallet.owner, wallet.name, wallet.balance, frozen_balance,
               wallet.history_len + 1, history_hash)

\* TxSendApprove::new
TxSendApprove_new(to, amount, approver) ==
    [to |-> to, amount |-> amount, approver |-> approver]

\* RawProofMapIndex::put
MapPut(map, key, value) ==
    [k \in (DOMAIN map) \cup {key} |-> IF k = key THEN value ELSE map[k]]

(* -------------------------------- state -------------------------------- *)

VARIABLES
    wallets,                \* Schema::wallets: Address -> Wallet (partial)
    confirmed_transaction,  \* Schema::confirmed_transaction: Hash -> TxSendApprove
    wallet_history,         \* SchemaImpl::wallet_history: Address -> list of Hash
    overflow_checks,        \* the build panics on integer overflow (else wraps)
    call,                   \* the last method call: its arguments and outcome
    prev_call,              \* the method call before the last one
    wrapped,                \* the arithmetic of some call has overflowed
    applied,                \* per address: the calls since create_wallet were only
                            \* balance increases and covered decreases, and the
                            \* signed sum of their amounts
    reads                   \* per caller: the Wallet it got from wallet(address)
                            \* and has not passed to a method yet

vars == <<wallets, confirmed_transaction, wallet_history, overflow_checks, call,
          prev_call, wrapped, applied, reads>>

\* The callers that may hold a Wallet at the same time.
Callers == {1, 2}

\* Placeholder of `call.wallet` for the methods that take no Wallet.
NoWallet == Wallet_new("", "", 0, 0, 0, 0)

Call(op, key, wallet, name, amount, to, approver, transaction, outcome) ==
    [op |-> op, key |-> key, wallet |-> wallet, name |-> name, amount |-> amount,
     to |-> to, approver |-> approver, transaction |-> transaction,
     outcome |-> outcome]

RECURSIVE TotalLen(_, _)
TotalLen(histories, keys) ==
    IF keys = {} THEN 0
    ELSE LET k == CHOOSE x \in keys : TRUE
         IN Len(histories[k]) + TotalLen(histories, keys \ {k})

\* A method can be called: no earlier call panicked, and the model's bound
\* on the history entries is not reached.
CanCall == call.outcome # "panic" /\ TotalLen(wallet_history, Address) < MaxHistory

\* `applied` after a call on `key` that is no plain balance change.
applied_other(key) ==
    [applied EXCEPT ![key] = [only_balance |-> FALSE, sum |-> 0]]

\* `applied` after a balance change of `delta` (negative for a decrease) on the
\* wallet `w`; a decrease by more than the balance ends the sequence.
applied_balance(w, delta, panic) ==
    IF panic THEN applied
    ELSE IF applied[w.owner].only_balance /\ w.balance + delta >= 0
    THEN [applied EXCEPT ![w.owner].sum = @ + delta]
    ELSE applied_other(w.owner)

\* SchemaImpl::new on an empty database.
Init ==
    /\ wallets = <<>>
    /\ confirmed_transaction = <<>>
    /\ wallet_history = [a \in Address |-> <<>>]
    /\ overflow_checks \in BOOLEAN
    /\ call = Call("new", "", NoWallet, "", 0, "", "", 0, "ok")
    /\ prev_call = Call("new", "", NoWallet, "", 0, "", "", 0, "ok")
    /\ wrapped = FALSE
    /\ applied = [a \in Address |-> [only_balance |-> FALSE, sum |-> 0]]
    /\ reads = [c \in Callers |-> {}]

(* ------------------------------- methods ------------------------------- *)

\* A slip: one push for each setter of the wallet.
pushed_history_twice(key, transaction) ==
    [wallet_history EXCEPT
        ![key] = Append(Append(wallet_history[key], transaction), transaction)]

\* A slip: the new entry goes to the front of the list.
pushed_history_front(key, transaction) ==
    [wallet_history EXCEPT ![key] = <<transaction>> \o wallet_history[key]]

\* A slip: the entry is pushed to the list of every address.
pushed_history_all(key, transaction) ==
    [a \in Address |-> Append(wallet_history[a], transaction)]

\* The history lists after `wallet_history.get(&key).push(transaction)`.
pushed_history(key, transaction) ==
    [wallet_history EXCEPT ![key] = Append(wallet_history[key], transaction)]

\* A slip: the history length of a fresh address.
create_wallet_value_fresh(key, name, history) ==
    Wallet_new(key, name, INITIAL_BALANCE, 0, 1, object_hash(history))

\* A slip: the wallet is made for another address than the key.
create_wallet_value_misowned(key, name, history) ==
    Wallet_new(CHOOSE a \in Address : a # key, name, INITIAL_BALANCE, 0,
               Len(history), object_hash(history))

\* The wallet that create_wallet writes.
create_wallet_value(key, name, history) ==
    Wallet_new(key, name, INITIAL_BALANCE, 0, Len(history), object_hash(history))

create_wallet(key, name, transaction) ==
    LET history == Append(wallet_history[key], transaction)
    IN /\ CanCall
       /\ prev_call' = call
       /\ wallet_history' = pushed_history(key, transaction)
       /\ wallets' = MapPut(wallets, key, create_wallet_value(key, name, history))
       /\ call' = Call("create_wallet", key, NoWallet, name, 0, "", "",
                       transaction, "ok")
       /\ applied' = [applied EXCEPT ![key] = [only_balance |-> TRUE, sum |-> 0]]
       /\ UNCHANGED <<confirmed_transaction, overflow_checks, wrapped>>

\* `balance + amount` of increase_wallet_balance, exactly.
increase_wallet_balance_sum(wallet, amount) == wallet.balance + amount

increase_wallet_balance(wallet, amount, transaction) ==
    LET history == Append(wallet_history[wallet.owner], transaction)
        history_hash == object_hash(history)
        balance == increase_wallet_balance_sum(wallet, amount)
        panic == overflow_checks /\ OverflowsU64(balance)
        new_wallet == set_balance(wallet, AsU64(balance), history_hash)
    IN /\ CanCall
       /\ prev_call' = call
       /\ wallet_history' = pushed_history(wallet.owner, transaction)
       /\ wallets' = IF panic THEN wallets
                     ELSE MapPut(wallets, new_wallet.owner, new_wallet)
       /\ call' = Call("increase_wallet_balance", wallet.owner, wallet, "", amount,
                       "", "", transaction, IF panic THEN "panic" ELSE "ok")
       /\ applied' = applied_balance(wallet, amount, panic)
       /\ wrapped' = (wrapped \/ OverflowsU64(balance))
       /\ UNCHANGED <<confirmed_transaction, overflow_checks>>

\* `balance - amount` of decrease_wallet_balance, exactly.
decrease_wallet_balance_dif(wallet, amount) == wallet.balance - amount

decrease_wallet_balance(wallet, amount, transaction) ==
    LET history == Append(wallet_history[wallet.owner], transaction)
        history_hash == object_hash(history)
        balance == decrease_wallet_balance_dif(wallet, amount)
        panic == overflow_checks /\ OverflowsU64(balance)
        new_wallet == set_balance(wallet, AsU64(balance), history_hash)
    IN /\ CanCall
       /\ prev_call' = call
       /\ wallet_history' = pushed_history(wallet.owner, transaction)
       /\ wallets' = IF panic THEN wallets
                     ELSE MapPut(wallets, new_wallet.owner, new_wallet)
       /\ call' = Call("decrease_wallet_balance", wallet.owner, wallet, "", amount,
                       "", "", transaction, IF panic THEN "panic" ELSE "ok")
       /\ applied' = applied_balance(wallet, 0 - amount, panic)
       /\ wrapped' = (wrapped \/ OverflowsU64(balance))
       /\ UNCHANGED <<confirmed_transaction, overflow_checks>>

\* `wallet_frozen_balance + frozen_balance_change` of increase_frozen_balance:
\* the exact sum of the two i64 values.
increase_frozen_balance_sum(wallet, frozen_balance_change) ==
    AsI64(wallet.frozen_balance) + frozen_balance_change

\* increase_frozen_balance panics: the i64 addition overflows in a build
\* with overflow checks (the casts never panic).
increase_frozen_balance_panics(wallet, frozen_balance_change) ==
    overflow_checks
        /\ OverflowsI64(increase_frozen_balance_sum(wallet, frozen_balance_change))

\* The i64 addition of increase_frozen_balance overflows, or one of its casts
\* changes the value: the result is not the sum of the frozen balance and
\* the change.
increase_frozen_balance_wraps(wallet, frozen_balance_change) ==
    \/ OverflowsI64(increase_frozen_balance_sum(wallet, frozen_balance_change))
    \/ OverflowsU64(wallet.frozen_balance + frozen_balance_change)

\* A slip: the wallet is built anew, with the starting balance.
increase_frozen_balance_value_reset(wallet, frozen_balance_change, history_hash) ==
    Wallet_new(
        wallet.owner, wallet.name, INITIAL_BALANCE,
        AsU64(WrapI64(increase_frozen_balance_sum(wallet, frozen_balance_change))),
        wallet.history_len + 1, history_hash)

\* The wallet that increase_frozen_balance writes.
increase_frozen_balance_value(wallet, frozen_balance_change, history_hash) ==
    set_frozen_balance(
        wallet,
        AsU64(WrapI64(increase_frozen_balance_sum(wallet, frozen_balance_change))),
        history_hash)

\* The wallet map after increase_frozen_balance.
increase_frozen_balance_wallets(wallet, frozen_balance_change, transaction) ==
    LET history == Append(wallet_history[wallet.owner], transaction)
        new_wallet == increase_frozen_balance_value(wallet, frozen_balance_change,
                                                    object_hash(history))
    IN IF increase_frozen_balance_panics(wallet, frozen_balance_change)
       THEN wallets
       ELSE MapPut(wallets, new_wallet.owner, new_wallet)

increase_frozen_balance(wallet, frozen_balance_change, transaction) ==
    /\ CanCall
    /\ prev_call' = call
    /\ wallet_history' = pushed_history(wallet.owner, transaction)
    /\ wallets' = increase_frozen_balance_wallets(wallet, frozen_balance_change,
                                                  transaction)
    /\ call' = Call("increase_frozen_balance", wallet.owner, wallet, "",
                    frozen_balance_change, "", "", transaction,
                    IF increase_frozen_balance_panics(wallet, frozen_balance_change)
                    THEN "panic" ELSE "ok")
    /\ applied' = applied_other(wallet.owner)
    /\ wrapped' = (wrapped \/ increase_frozen_balance_wraps(wallet, frozen_balance_change))
    /\ UNCHANGED <<confirmed_transaction, overflow_checks>>

\* A slip: a plain unfreeze, the balance is not spent.
decrease_frozen_balance_value_unfreeze(wallet, frozen_balance_change, history_hash) ==
    set_frozen_balance(wallet, AsU64(wallet.frozen_balance - frozen_balance_change),
                       history_hash)

\* The wallet that decrease_frozen_balance writes: both setters are applied,
\* one after the other, to the wrapped differences.
decrease_frozen_balance_value(wallet, frozen_balance_change, history_hash) ==
    LET dif_froz == AsU64(wallet.frozen_balance - frozen_balance_change)
        dif_bal == AsU64(wallet.balance - frozen_balance_change)
    IN set_balance(set_frozen_balance(wallet, dif_froz, history_hash),
                   dif_bal, history_hash)

decrease_frozen_balance(wallet, frozen_balance_change, transaction) ==
    LET history == Append(wallet_history[wallet.owner], transaction)
        overflows == \/ OverflowsU64(wallet.frozen_balance - frozen_balance_change)
                     \/ OverflowsU64(wallet.balance - frozen_balance_change)
        panic == overflow_checks /\ overflows
        new_wallet == decrease_frozen_balance_value(wallet, frozen_balance_change,
                                                    object_hash(history))
    IN /\ CanCall
       /\ prev_call' = call
       /\ wallet_history' = pushed_history(wallet.owner, transaction)
       /\ wallets' = IF panic THEN wallets
                     ELSE MapPut(wallets, new_wallet.owner, new_wallet)
       /\ call' = Call("decrease_frozen_balance", wallet.owner, wallet, "",
                       frozen_balance_change, "", "", transaction,
                       IF panic THEN "panic" ELSE "ok")
       /\ applied' = applied_other(wallet.owner)
       /\ wrapped' = (wrapped \/ overflows)
       /\ UNCHANGED <<confirmed_transaction, overflow_checks>>

\* A slip: recipient and approver change places.
create_send_approve_transaction_record_swapped(amount, to, approver) ==
    TxSendApprove_new(approver, amount, to)

\* The record that create_send_approve_transaction puts.
create_send_approve_transaction_record(amount, to, approver) ==
    TxSendApprove_new(to, amount, approver)

create_send_approve_transaction(wallet, amount, to, approver, transaction) ==
    LET panic == increase_frozen_balance_panics(wallet, AsI64(amount))
    IN /\ CanCall
       /\ prev_call' = call
       /\ wallet_history' = pushed_history(wallet.owner, transaction)
       /\ wallets' = increase_frozen_balance_wallets(wallet, AsI64(amount),
                                                     transaction)
       /\ confirmed_transaction' =
              IF panic THEN confirmed_transaction
              ELSE MapPut(confirmed_transaction, transaction,
                          create_send_approve_transaction_record(amount, to, approver))
       /\ call' = Call("create_send_approve_transaction", wallet.owner, wallet, "",
                       amount, to, approver, transaction,
                       IF panic THEN "panic" ELSE "ok")
       /\ applied' = applied_other(wallet.owner)
       /\ wrapped' = (wrapped \/ increase_frozen_balance_wraps(wallet, AsI64(amount)))
       /\ UNCHANGED overflow_checks

(* ---------------------------- specification ---------------------------- *)

\* SchemaImpl::wallet
wallet(address) == IF address \in DOMAIN wallets THEN {wallets[address]} ELSE {}

\* SchemaImpl::confirmed
confirmed(hash) ==
    IF hash \in DOMAIN confirmed_transaction
    THEN {confirmed_transaction[hash]} ELSE {}

\* (to, approver) of the send-approve transactions.
Parties == {<<"B", "A">>, <<"A", "B">>}

\* The transactions of the service call one method each, passing the wallet
\* they have just read with wallet(address).
Next ==
    \/ \E key \in Address, name \in Name, transaction \in Hash :
            create_wallet(key, name, transaction) /\ UNCHANGED reads
    \/ \E address \in Address, amount \in Amounts, transaction \in Hash :
            \E w \in wallet(address) :
                increase_wallet_balance(w, amount, transaction) /\ UNCHANGED reads
    \/ \E address \in Address, amount \in Amounts, transaction \in Hash :
            \E w \in wallet(address) :
                decrease_wallet_balance(w, amount, transaction) /\ UNCHANGED reads
    \/ \E address \in Address, change \in Changes, transaction \in Hash :
            \E w \in wallet(address) :
                increase_frozen_balance(w, change, transaction) /\ UNCHANGED reads
    \/ \E address \in Address, change \in Amounts, transaction \in Hash :
            \E w \in wallet(address) :
                decrease_frozen_balance(w, change, transaction) /\ UNCHANGED reads
    \/ \E address \in Address, amount \in Amounts, p \in Parties,
          transaction \in Hash :
            \E w \in wallet(address) :
                create_send_approve_transaction(w, amount, p[1], p[2], transaction)
                    /\ UNCHANGED reads

Spec == Init /\ [][Next]_vars

\* A caller reads a wallet with wallet(address) and keeps it.
read_wallet(c, address) ==
    /\ call.outcome # "panic"
    /\ reads[c] = {}
    /\ \E w \in wallet(address) : reads' = [reads EXCEPT ![c] = {w}]
    /\ UNCHANGED <<wallets, confirmed_transaction, wallet_history, overflow_checks,
                   call, prev_call, wrapped, applied>>

\* The caller has passed its Wallet: it was moved into the method.
passed(c) == reads' = [reads EXCEPT ![c] = {}]

\* Read-then-pass without serialisation: a caller passes the Wallet it read
\* earlier, whatever was stored in between.
NextInterleaved ==
    \/ \E c \in Callers, address \in Address : read_wallet(c, address)
    \/ \E key \in Address, name \in Name, transaction \in Hash :
            create_wallet(key, name, transaction) /\ UNCHANGED reads
    \/ \E c \in Callers, amount \in Amounts, transaction \in Hash :
            \E w \in reads[c] :
                increase_wallet_balance(w, amount, transaction) /\ passed(c)
    \/ \E c \in Callers, amount \in Amounts, transaction \in Hash :
            \E w \in reads[c] :
                decrease_wallet_balance(w, amount, transaction) /\ passed(c)
    \/ \E c \in Callers, change \in Changes, transaction \in Hash :
            \E w \in reads[c] :
                increase_frozen_balance(w, change, transaction) /\ passed(c)
    \/ \E c \in Callers, change \in Amounts, transaction \in Hash :
            \E w \in reads[c] :
                decrease_frozen_balance(w, change, transaction) /\ passed(c)
    \/ \E c \in Callers, amount \in Amounts, p \in Parties, transaction \in Hash :
            \E w \in reads[c] :
                create_send_approve_transaction(w, amount, p[1], p[2], transaction)
                    /\ passed(c)

SpecInterleaved == Init /\ [][NextInterleaved]_vars

(* ------------------------------- claims -------------------------------- *)

\* The last call returned to its caller.
Returned == call.outcome = "ok"
\* The wallet stored for an address matches the address's history list.
Consistent(a) ==
    /\ wallets[a].history_len = Len(wallet_history[a])
    /\ wallets[a].history_hash = object_hash(wallet_history[a])

\* C1: in every state reached by calls without arithmetic overflow, every
\* stored wallet has history_len equal to the length of its history list and
\* history_hash equal to the digest of that list.
C1_HistoryMatchesLog == ~wrapped => \A a \in DOMAIN wallets : Consistent(a)

\* C2: a decrease_wallet_balance call with amount > wallet.balance fails and
\* leaves the wallet map and the history lists as they were.
C2_DecreaseRejected ==
    [][(call'.op = "decrease_wallet_balance" /\ call'.amount > call'.wallet.balance)
          => (call'.outcome = "panic" /\ wallets' = wallets
                /\ wallet_history' = wallet_history)]_vars

\* C3: after create_wallet followed only by balance increases and by decreases
\* of at most the current balance, the stored balance is INITIAL_BALANCE plus
\* the signed sum of the amounts.
C3_BalanceIsSignedSum ==
    \A a \in DOMAIN wallets :
        (Returned /\ applied[a].only_balance)
            => wallets[a].balance = INITIAL_BALANCE + applied[a].sum

\* C4: a decrease_frozen_balance call with a change above the frozen balance
\* or above the balance fails and leaves the wallet map and the history lists
\* as they were.
C4_DecreaseFrozenRejected ==
    [][(/\ call'.op = "decrease_frozen_balance"
        /\ (\/ call'.amount > call'.wallet.frozen_balance
            \/ call'.amount > call'.wallet.balance))
          => (call'.outcome = "panic" /\ wallets' = wallets
                /\ wallet_history' = wallet_history)]_vars

\* C5: after a create_send_approve_transaction call that returned, made in a
\* state reached without arithmetic overflow, with any amount, the frozen
\* balance is the prior one plus the amount, the record under the transaction
\* hash is {to, amount, approver}, the balance is as before and the history
\* list has grown by the transaction hash.
C5_SendApproveFreezesAmount ==
    [][(/\ call'.op = "create_send_approve_transaction" /\ call'.outcome = "ok"
        /\ ~wrapped)
          => LET k == call'.key
             IN /\ wallets'[k].frozen_balance
                      = call'.wallet.frozen_balance + call'.amount
                /\ wallets'[k].balance = call'.wallet.balance
                /\ call'.transaction \in DOMAIN confirmed_transaction'
                /\ confirmed_transaction'[call'.transaction]
                      = [to |-> call'.to, amount |-> call'.amount,
                         approver |-> call'.approver]
                /\ wallet_history'[k]
                      = Append(wallet_history[k], call'.transaction)]_vars

\* A decrease_frozen_balance call has returned, right after an
\* increase_frozen_balance call that returned, on the same wallet, with the
\* same change, of at most the balance.
FreezeThenRelease(first, second) ==
    /\ first.op = "increase_frozen_balance" /\ first.outcome = "ok"
    /\ second.op = "decrease_frozen_balance" /\ second.outcome = "ok"
    /\ second.key = first.key
    /\ second.amount = first.amount
    /\ first.amount <= first.wallet.balance

\* C6: increase_frozen_balance followed by decrease_frozen_balance with the
\* same change (at most the balance) leaves the frozen balance it started
\* from and the balance lowered by the change, once.
C6_FreezeThenReleaseSpendsOnce ==
    [][FreezeThenRelease(call, call')
          => /\ wallets'[call.key].frozen_balance = call.wallet.frozen_balance
             /\ wallets'[call.key].balance = call.wallet.balance - call.amount]_vars

C6_Witness ==
    /\ FreezeThenRelease(prev_call, call)
    /\ call.amount > 0
    /\ wallets[call.key].balance = prev_call.wallet.balance - call.amount

\* C7: an increase_frozen_balance call whose sum of frozen balance and change
\* is negative or above the unsigned maximum fails and changes neither the
\* wallet map nor the history lists; a call that returns stores the sum.
C7_IncreaseFrozenChecked ==
    [][call'.op = "increase_frozen_balance"
          => LET sum == call'.wallet.frozen_balance + call'.amount
             IN IF OverflowsU64(sum)
                THEN /\ call'.outcome = "panic"
                     /\ wallets' = wallets
                     /\ wallet_history' = wallet_history
                ELSE call'.outcome = "ok"
                        => wallets'[call'.key].frozen_balance = sum]_vars

\* C8: an increase_wallet_balance call whose sum of balance and amount is
\* above the unsigned maximum fails and changes neither the wallet map nor
\* the history lists; otherwise it stores the sum.
C8_IncreaseBalanceChecked ==
    [][call'.op = "increase_wallet_balance"
          => LET sum == call'.wallet.balance + call'.amount
             IN IF OverflowsU64(sum)
                THEN /\ call'.outcome = "panic"
                     /\ wallets' = wallets
                     /\ wallet_history' = wallet_history
                ELSE /\ call'.outcome = "ok"
                     /\ wallets'[call'.key].balance = sum]_vars

C10_CreateWalletValue ==
    [][call'.op = "create_wallet"
          => LET history == Append(wallet_history[call'.key], call'.transaction)
             IN /\ wallet_history'[call'.key] = history
                /\ call'.key \in DOMAIN wallets'
                /\ wallets'[call'.key]
                      = [owner |-> call'.key, name |-> call'.name,
                         balance |-> INITIAL_BALANCE, frozen_balance |-> 0,
                         history_len |-> Len(history),
                         history_hash |-> object_hash(history)]]_vars

C10_Witness ==
    /\ call.op = "create_wallet"
    /\ prev_call.op = "increase_wallet_balance" /\ prev_call.key = call.key
    /\ prev_call.outcome = "ok"
    /\ Len(wallet_history[call.key]) = 3
    /\ wallets[call.key].history_len = 3
    /\ wallets[call.key].balance = INITIAL_BALANCE

\* The wallet stored under `a` is still stored after the step, with the owner
\* and the name it had; if the step changed it, the history list of `a` has
\* one more entry and the balance and the frozen balance are the old ones or
\* the old ones moved by the amount of the call.
DerivedFromStored(a) ==
    /\ a \in DOMAIN wallets'
    /\ wallets'[a].owner = wallets[a].owner
    /\ wallets'[a].name = wallets[a].name
    /\ wallets'[a] # wallets[a]
          => /\ Len(wallet_history'[a]) = Len(wallet_history[a]) + 1
             /\ wallets'[a].balance
                   \in {wallets[a].balance,
                        AsU64(wallets[a].balance + call'.amount),
                        AsU64(wallets[a].balance - call'.amount)}
             /\ wallets'[a].frozen_balance
                   \in {wallets[a].frozen_balance,
                        AsU64(wallets[a].frozen_balance + call'.amount),
                        AsU64(wallets[a].frozen_balance - call'.amount)}

\* C11 as stated: whatever method is called, every stored wallet stays stored
\* with its owner and name, and its new value derives from the stored one.
C11_WalletNeverReset == [][\A a \in DOMAIN wallets : DerivedFromStored(a)]_vars

\* C11, amended: the same for every call but a create_wallet for an address
\* that has a wallet; no call removes a wallet.
C11_WalletKeptUnlessRecreated ==
    [][\A a \in DOMAIN wallets :
          /\ a \in DOMAIN wallets'
          /\ (call'.op = "create_wallet" /\ call'.key = a) \/ DerivedFromStored(a)]_vars

C11_Witness ==
    /\ call.op = "decrease_frozen_balance" /\ call.outcome = "ok"
    /\ prev_call.op = "increase_wallet_balance" /\ prev_call.outcome = "ok"
    /\ prev_call.key = call.key
    /\ wallets[call.key].name = prev_call.wallet.name
    /\ wallets[call.key].balance # INITIAL_BALANCE

\* C12 as stated: a record of the registry stays under its hash, unchanged,
\* whatever method is called.
C12_RegistryImmutable ==
    [][\A h \in DOMAIN confirmed_transaction :
          /\ h \in DOMAIN confirmed_transaction'
          /\ confirmed_transaction'[h] = confirmed_transaction[h]]_vars

\* C12, amended: no call removes a record, and a record changes only by a
\* create_send_approve_transaction call with the same hash, which replaces it
\* by the record of that call.
C12_RegistryReplacedOnlyBySameHash ==
    [][\A h \in DOMAIN confirmed_transaction :
          /\ h \in DOMAIN confirmed_transaction'
          /\ \/ confirmed_transaction'[h] = confirmed_transaction[h]
             \/ /\ call'.op = "create_send_approve_transaction"
                /\ call'.outcome = "ok"
                /\ call'.transaction = h
                /\ confirmed_transaction'[h]
                      = [to |-> call'.to, amount |-> call'.amount,
                         approver |-> call'.approver]]_vars

C12_Witness ==
    /\ call.op = "create_send_approve_transaction" /\ call.outcome = "ok"
    /\ prev_call.op = "create_send_approve_transaction" /\ prev_call.outcome = "ok"
    /\ prev_call.transaction = call.transaction
    /\ prev_call.amount # call.amount
    /\ confirmed_transaction[call.transaction].amount = call.amount

\* The step lowers the frozen balance of the wallet stored under `a`.
LowersFrozen(a) ==
    /\ a \in DOMAIN wallets'
    /\ wallets'[a].frozen_balance < wallets[a].frozen_balance

\* C13 as stated: every call (other than a repeated create_wallet, and
\* without arithmetic overflow so far) that lowers the frozen balance of a
\* wallet lowers its balance by the same amount.
C13_NoUnfreezeWithoutSpending ==
    [][\A a \in DOMAIN wallets :
          (LowersFrozen(a) /\ ~wrapped' /\ call'.op # "create_wallet")
              => wallets[a].balance - wallets'[a].balance
                    = wallets[a].frozen_balance - wallets'[a].frozen_balance]_vars

\* C13, amended: the frozen balance of a wallet is lowered only by a call for
\* its address; decrease_frozen_balance then lowers it by the change and takes
\* the same change from the balance (wrapping); increase_frozen_balance and
\* create_send_approve_transaction lower it with the balance untouched; a
\* repeated create_wallet resets both; the two balance methods never do.
C13_UnfreezeByMethod ==
    [][\A a \in DOMAIN wallets :
          LowersFrozen(a)
              => /\ call'.key = a
                 /\ call'.outcome = "ok"
                 /\ CASE call'.op = "decrease_frozen_balance" ->
                            /\ wallets'[a].frozen_balance
                                  = wallets[a].frozen_balance - call'.amount
                            /\ wallets'[a].balance
                                  = AsU64(wallets[a].balance - call'.amount)
                      [] call'.op \in {"increase_frozen_balance",
                                       "create_send_approve_transaction"} ->
                            wallets'[a].balance = wallets[a].balance
                      [] call'.op = "create_wallet" ->
                            /\ wallets'[a].frozen_balance = 0
                            /\ wallets'[a].balance = INITIAL_BALANCE
                      [] OTHER -> FALSE]_vars

C13_Witness ==
    /\ call.op = "increase_frozen_balance" /\ call.outcome = "ok"
    /\ call.amount < 0
    /\ ~wrapped
    /\ wallets[call.key].frozen_balance = call.wallet.frozen_balance + call.amount
    /\ wallets[call.key].balance = call.wallet.balance

\* What a call adds to the balance and to the frozen balance of its wallet.
BalanceChange(c) ==
    CASE c.op = "increase_wallet_balance" -> c.amount
      [] c.op \in {"decrease_wallet_balance", "decrease_frozen_balance"} -> 0 - c.amount
      [] OTHER -> 0
FrozenChange(c) ==
    CASE c.op \in {"increase_frozen_balance", "create_send_approve_transaction"} -> c.amount
      [] c.op = "decrease_frozen_balance" -> 0 - c.amount
      [] OTHER -> 0

\* The last two calls were given the same Wallet of one address: both callers
\* read it before either call was made.
BothReadBeforeEitherApplied ==
    /\ Returned /\ prev_call.outcome = "ok"
    /\ call.op \notin {"new", "create_wallet"}
    /\ prev_call.op \notin {"new", "create_wallet"}
    /\ call.key = prev_call.key
    /\ call.wallet = prev_call.wallet

\* C14: when two calls on one address were both given the wallet read before
\* either was made, and no arithmetic overflowed, the stored wallet carries the
\* balance and frozen-balance changes of both, its history_len and
\* history_hash match the history list, and the list ends with both
\* transaction hashes.
C14_NoLostUpdate ==
    (BothReadBeforeEitherApplied /\ ~wrapped)
        => LET k == call.key
               h == wallet_history[k]
           IN  /\ wallets[k].balance
                     = call.wallet.balance + BalanceChange(prev_call) + BalanceChange(call)
               /\ wallets[k].frozen_balance
                     = call.wallet.frozen_balance + FrozenChange(prev_call) + FrozenChange(call)
               /\ Consistent(k)
               /\ Len(h) >= 2
               /\ h[Len(h) - 1] = prev_call.transaction
               /\ h[Len(h)] = call.transaction

\* C15: in every state reached by calls that all returned, without arithmetic
\* overflow, every stored wallet has frozen_balance <= balance.
C15_FrozenWithinBalance ==
    (Returned /\ ~wrapped)
        => \A a \in DOMAIN wallets : wallets[a].frozen_balance <= wallets[a].balance

\* C16: every wallet of the map is stored under its own owner.
C16_OwnerIsKey == \A a \in DOMAIN wallets : wallets[a].owner = a

\* Two wallets are stored and a method has written one of them from the
\* wallet it was given.
C16_Witness ==
    /\ DOMAIN wallets = Address
    /\ Returned
    /\ call.op \notin {"new", "create_wallet"}
    /\ wallets[call.key] # call.wallet
    /\ wallets[call.key].owner = call.wallet.owner

\* C17: every call appends its transaction hash at the end of the history
\* list of its address and leaves the other lists as they were, so each list
\* is a prefix of what it is in every later state and holds the hashes of
\* the calls on its address in the order of the calls.
C17_HistoryAppendOnly ==
    [][\A a \in Address :
          IF a = call'.key
              THEN wallet_history'[a] = Append(wallet_history[a], call'.transaction)
              ELSE wallet_history'[a] = wallet_history[a]]_vars

\* Two calls with different hashes on one address, in the list in call order.
C17_Witness ==
    /\ call.key = prev_call.key
    /\ call.op \notin {"new", "create_wallet"}
    /\ call.transaction # prev_call.transaction
    /\ LET h == wallet_history[call.key]
       IN  /\ Len(h) >= 2
           /\ h[Len(h) - 1] = prev_call.transaction
           /\ h[Len(h)] = call.transaction

\* C18: a call leaves the wallets and history lists of all other addresses as
\* they were; the registry changes only in create_send_approve_transaction
\* and only at the call's transaction hash; increase_wallet_balance and
\* decrease_wallet_balance leave frozen_balance as it was and
\* increase_frozen_balance leaves balance as it was.
C18_Frame ==
    [][/\ \A a \in Address :
              a # call'.key
                  => /\ wallet_history'[a] = wallet_history[a]
                     /\ (a \in DOMAIN wallets') = (a \in DOMAIN wallets)
                     /\ a \in DOMAIN wallets => wallets'[a] = wallets[a]
       /\ \A h \in Hash :
              (call'.op # "create_send_approve_transaction" \/ h # call'.transaction)
                  => /\ (h \in DOMAIN confirmed_transaction')
                            = (h \in DOMAIN confirmed_transaction)
                     /\ h \in DOMAIN confirmed_transaction
                            => confirmed_transaction'[h] = confirmed_transaction[h]
       /\ call'.op \in {"increase_wallet_balance", "decrease_wallet_balance"}
              => /\ call'.key \in DOMAIN wallets'
                 /\ wallets'[call'.key].frozen_balance = call'.wallet.frozen_balance
                 /\ call'.wallet.frozen_balance = wallets[call'.key].frozen_balance
       /\ call'.op = "increase_frozen_balance"
              => /\ call'.key \in DOMAIN wallets'
                 /\ wallets'[call'.key].balance = call'.wallet.balance
                 /\ call'.wallet.balance = wallets[call'.key].balance]_vars

\* Both addresses have a wallet with history, and a call on one of them has
\* changed its balance and left its frozen balance.
C18_Witness ==
    /\ DOMAIN wallets = Address
    /\ Returned
    /\ call.op \in {"increase_wallet_balance", "decrease_wallet_balance"}
    /\ wallets[call.key].balance # call.wallet.balance
    /\ wallets[call.key].frozen_balance = call.wallet.frozen_balance
    /\ \A a \in Address : a # call.key => Len(wallet_history[a]) = 1

====
